---- MODULE Spec2Model ----
(***************************************************************************)
(* Model of threepseat/cogs/commands.py: the Commands cog, a per-guild     *)
(* registry of custom text commands.  The cog keeps two structures:        *)
(*   db            the GuildDatabase, guild -> (name -> text), persisted;  *)
(*   all_commands  the bot's command table, name -> Command, shared by     *)
(*                 all guilds (discord.ext.commands.GroupMixin).           *)
(* The bot's command table follows discord.py: add_command raises when the *)
(* name is already registered (the reason for the comment on              *)
(* commands.py:74), remove_command is a no-op for an unknown name.         *)
(***************************************************************************)
EXTENDS Integers, Sequences, FiniteSets, TLC

\* Bounds of the model.
NumGuilds == 2
NumTexts == 2

\* The name of the administrative command group, commands.py:132.
GroupName == 0

\* The names a user may give a command: a name of the user's own, and the
\* name of the group.
CustomNames == {1}
Names == {GroupName} \cup CustomNames

Guilds == 1..NumGuilds
Texts == 1..NumTexts
Channels == {1, 2}

\* discord.Member, reduced to the two attributes the permission check reads.
Members == [guild_admin : BOOLEAN, bot_admin : BOOLEAN]

\* commands.Context: the author of the message, its guild and its channel.
Contexts == [author : Members, guild : Guilds, channel : Channels]

\* The context of a custom command's invocation: the callback reads only the
\* guild and the channel of it, so one author stands for all.
InvokeContexts == {ctx \in Contexts : ctx.author = [guild_admin |-> FALSE, bot_admin |-> FALSE]}

VARIABLES
    db,                   \* self.db: guild -> (name -> text), a dict per guild
    all_commands,         \* self.bot.all_commands: name -> Command
    guild_admin_permission,  \* self.guild_admin_permission
    bot_admin_permission,    \* self.bot_admin_permission
    everyone_permission,  \* self.everyone_permission
    phase,                \* "init" (in __init__), "constructed", "ready", "failed"
    todo,                 \* (guild, name) items __init__ has not visited yet
    cur,                  \* the guild whose table __init__ is iterating
    last,                 \* the operation that ran last: the dispatcher's call
    sent,                 \* what that operation sent with bot.message_guild
    tasks,                \* the frames of the coroutines the event loop holds
    running               \* the task the event loop is running, or NoTask

vars == <<db, all_commands, guild_admin_permission, bot_admin_permission,
          everyone_permission, phase, todo, cur, last, sent, tasks, running>>

\* The empty dict.
EmptyDict == [n \in {} |-> 0]

\* Every table a guild can hold: a dict from some names to texts.
Tables == UNION {[S -> Texts] : S \in SUBSET Names}

----------------------------------------------------------------------------
\* GuildDatabase (threepseat.utils)

\* GuildDatabase.tables(): the (guild, name) items of all tables.
db_items(d) == {gn \in Guilds \X Names : gn[2] \in DOMAIN d[gn[1]]}

\* GuildDatabase.value(guild, key): the stored value, None when absent.
None == 0
db_value(d, guild, key) ==
    IF key \in DOMAIN d[guild] THEN d[guild][key] ELSE None

\* GuildDatabase.set(guild, key, value): create or overwrite.
db_set(d, guild, key, value) ==
    [d EXCEPT ![guild] =
        [k \in (DOMAIN d[guild]) \cup {key} |->
            IF k = key THEN value ELSE d[guild][k]]]

\* GuildDatabase.clear(guild, key): delete the key, nothing when absent.
db_clear(d, guild, key) ==
    [d EXCEPT ![guild] = [k \in (DOMAIN d[guild]) \ {key} |-> d[guild][k]]]

_get_command(guild, name) == db_value(db, guild, name)

\* A clear keyed by the name alone: the name is deleted from every guild's
\* table.
_remove_command_every_guild(guild, name) ==
    [g \in Guilds |-> db_clear(db, g, name)[g]]

_remove_command(guild, name) == db_clear(db, guild, name)

\* A store keyed by the name alone: the text is set in every guild's table.
_set_command_every_guild(guild, name, text) ==
    [g \in Guilds |-> db_set(db, g, name, text)[g]]

_set_command(guild, name, text) == db_set(db, guild, name, text)

----------------------------------------------------------------------------
\* The bot's command table (discord.ext.commands)

\* make_command: a Command named name whose callback looks the text up by
\* the bound name at invocation; the text argument is not used.
make_command(name, text) == [name |-> name, callback |-> "_command"]

\* The `commands` group of the cog.
group_command == [name |-> GroupName, callback |-> "_commands"]

\* bot.add_command raises when the name is already registered.
add_command_raises(cmds, command) == command.name \in DOMAIN cmds

add_command(cmds, command) ==
    [k \in (DOMAIN cmds) \cup {command.name} |->
        IF k = command.name THEN command ELSE cmds[k]]

\* bot.remove_command(name): pops the name, nothing when absent.
remove_command(cmds, name) == [k \in (DOMAIN cmds) \ {name} |-> cmds[k]]

----------------------------------------------------------------------------
\* Messages

\* bot.message_guild(message, channel)
message_guild(message, channel) == [channel |-> channel, message |-> message]

denied_add(author) == [notice |-> "no permission to add", mention |-> author]
denied_remove(author) == [notice |-> "no permission to remove", mention |-> author]
added_command(name) == [notice |-> "added command", name |-> name]
removed_command(name) == [notice |-> "removed command", name |-> name]
not_available == [notice |-> "this command is not available in this guild"]
stored_text(text) == [text |-> text]

----------------------------------------------------------------------------
\* Permission

is_admin(member) == member.guild_admin
is_bot_admin(member) == member.bot_admin

\* A check that forgets the bot's administrators.
has_permission_guild_admin_only(member) ==
    IF everyone_permission THEN TRUE
    ELSE IF is_admin(member) THEN TRUE
    ELSE FALSE

\* has_permission with each admin right granted only under its flag.
has_permission_by_flags(member) ==
    IF everyone_permission THEN TRUE
    ELSE IF \/ guild_admin_permission /\ is_admin(member)
            \/ bot_admin_permission /\ is_bot_admin(member) THEN TRUE
    ELSE FALSE

has_permission(member) ==
    IF everyone_permission THEN TRUE
    ELSE IF is_admin(member) \/ is_bot_admin(member) THEN TRUE
    ELSE FALSE

----------------------------------------------------------------------------
\* Construction

NoContext == [author |-> [guild_admin |-> FALSE, bot_admin |-> FALSE],
              guild |-> 1, channel |-> 1]

\* The record kept of an operation: what was called (op, ctx, name, text),
\* the text the store held for (ctx.guild, name) when it was called (old),
\* whether a command of that name was registered then (had), and the branch
\* the code took (outcome).
Operation(op, ctx, name, text, outcome) ==
    [op |-> op, ctx |-> ctx, name |-> name, text |-> text,
     old |-> db_value(db, ctx.guild, name),
     had |-> name \in DOMAIN all_commands, outcome |-> outcome]

NoOp == [op |-> "none", ctx |-> NoContext, name |-> GroupName, text |-> None,
         old |-> None, had |-> FALSE, outcome |-> "none"]

\* The tasks of the event loop: `tasks` maps each live task to its frame.  A
\* frame holds the coroutine's arguments and local (op, ctx, name, text) and
\* the line of the statement it runs next (pc); a frame that has nothing left
\* to run but its return holds no more than that.
Tasks == {1, 2}
NoTask == 0
Return == 0
Frame(op, ctx, name, text, pc) ==
    [op |-> op, ctx |-> ctx, name |-> name, text |-> text, pc |-> pc]
Returning(op) == Frame(op, NoContext, GroupName, None, Return)

\* The task t is created with frame f, and the task t has ended.
create_task(t, f) == [u \in DOMAIN tasks \cup {t} |-> IF u = t THEN f ELSE tasks[u]]
ended(t) == [u \in DOMAIN tasks \ {t} |-> tasks[u]]

\* __init__ up to the loop: the three flags are stored as given, the stored
\* tables are read, and the bot has no command yet.
__init__(_guild_admin_permission, _bot_admin_permission, _everyone_permission) ==
    /\ guild_admin_permission' = _guild_admin_permission
    /\ bot_admin_permission' = _bot_admin_permission
    /\ everyone_permission' = _everyone_permission
    /\ all_commands' = EmptyDict
    /\ phase' = "init"
    /\ todo' = db_items(db)
    /\ cur' = 1
    /\ last' = NoOp
    /\ sent' = <<>>
    /\ tasks' = EmptyDict
    /\ running' = NoTask
    /\ UNCHANGED db

\* The cog under construction, the two admin flags left at the defaults of
\* the signature.
Init ==
    /\ db \in [Guilds -> Tables]
    /\ all_commands = EmptyDict
    /\ guild_admin_permission = TRUE
    /\ bot_admin_permission = TRUE
    /\ everyone_permission \in BOOLEAN
    /\ phase = "init"
    /\ todo = db_items(db)
    /\ cur = 1
    /\ last = NoOp
    /\ sent = <<>>
    /\ tasks = EmptyDict
    /\ running = NoTask

\* The cog under construction with any configuration of the three flags.
InitFlags ==
    /\ db \in [Guilds -> Tables]
    /\ all_commands = EmptyDict
    /\ guild_admin_permission \in BOOLEAN
    /\ bot_admin_permission \in BOOLEAN
    /\ everyone_permission \in BOOLEAN
    /\ phase = "init"
    /\ todo = db_items(db)
    /\ cur = 1
    /\ last = NoOp
    /\ sent = <<>>
    /\ tasks = EmptyDict
    /\ running = NoTask

\* __init__, one iteration of `for table ...: for name, text ...:
\* self.bot.add_command(...)`.  The tables are visited one after the other,
\* in the order the dicts give; an add_command that raises ends __init__.
init_register(guild, name) ==
    /\ phase = "init"
    /\ <<guild, name>> \in todo
    /\ guild = cur \/ \A gn \in todo : gn[1] # cur
    /\ LET command == make_command(name, db[guild][name])
       IN  IF add_command_raises(all_commands, command)
           THEN /\ phase' = "failed"
                /\ UNCHANGED <<all_commands, todo, cur>>
           ELSE /\ all_commands' = add_command(all_commands, command)
                /\ todo' = todo \ {<<guild, name>>}
                /\ cur' = guild
                /\ UNCHANGED phase
    /\ UNCHANGED <<db, guild_admin_permission, bot_admin_permission,
                   everyone_permission, last, sent, tasks, running>>

\* __init__ returns when the loops are done.
init_return ==
    /\ phase = "init"
    /\ todo = {}
    /\ phase' = "constructed"
    /\ UNCHANGED <<db, all_commands, guild_admin_permission, bot_admin_permission,
                   everyone_permission, todo, cur, last, sent, tasks, running>>

\* The cog is added to the bot: its `commands` group is registered.
add_cog ==
    /\ phase = "constructed"
    /\ IF add_command_raises(all_commands, group_command)
       THEN /\ phase' = "failed"
            /\ UNCHANGED all_commands
       ELSE /\ phase' = "ready"
            /\ all_commands' = add_command(all_commands, group_command)
    /\ UNCHANGED <<db, guild_admin_permission, bot_admin_permission,
                   everyone_permission, todo, cur, last, sent, tasks, running>>

----------------------------------------------------------------------------
\* Operations

\* add without the `return` of the denial branch: the denial is sent and the
\* command is added all the same.
add_without_return(ctx, name, text) ==
    LET denial == IF has_permission(ctx.author) THEN <<>>
                  ELSE <<message_guild(denied_add(ctx.author), ctx.channel)>>
    IN  /\ db' = _set_command(ctx.guild, name, text)
        /\ all_commands' =
               add_command(remove_command(all_commands, name), make_command(name, text))
        /\ sent' = denial \o <<message_guild(added_command(name), ctx.channel)>>
        /\ last' = Operation("add", ctx, name, text,
                             IF has_permission(ctx.author) THEN "done" ELSE "denied")

\* add without `self.bot.remove_command(name)`: add_command raises when the
\* name is registered already.
add_without_remove_command(ctx, name, text) ==
    IF ~has_permission(ctx.author)
    THEN /\ sent' = <<message_guild(denied_add(ctx.author), ctx.channel)>>
         /\ last' = Operation("add", ctx, name, text, "denied")
         /\ UNCHANGED <<db, all_commands>>
    ELSE LET command == make_command(name, text)
         IN  /\ db' = _set_command(ctx.guild, name, text)
             /\ IF add_command_raises(all_commands, command)
                THEN /\ UNCHANGED all_commands
                     /\ sent' = <<>>
                     /\ last' = Operation("add", ctx, name, text, "raised")
                ELSE /\ all_commands' = add_command(all_commands, command)
                     /\ sent' = <<message_guild(added_command(name), ctx.channel)>>
                     /\ last' = Operation("add", ctx, name, text, "done")

\* add without `self.bot.add_command(...)`: the text is stored, no command
\* is registered.
add_without_add_command(ctx, name, text) ==
    IF ~has_permission(ctx.author)
    THEN /\ sent' = <<message_guild(denied_add(ctx.author), ctx.channel)>>
         /\ last' = Operation("add", ctx, name, text, "denied")
         /\ UNCHANGED <<db, all_commands>>
    ELSE /\ db' = _set_command(ctx.guild, name, text)
         /\ all_commands' = remove_command(all_commands, name)
         /\ sent' = <<message_guild(added_command(name), ctx.channel)>>
         /\ last' = Operation("add", ctx, name, text, "done")

add(ctx, name, text) ==
    IF ~has_permission(ctx.author)
    THEN /\ sent' = <<message_guild(denied_add(ctx.author), ctx.channel)>>
         /\ last' = Operation("add", ctx, name, text, "denied")
         /\ UNCHANGED <<db, all_commands>>
    ELSE LET removed == remove_command(all_commands, name)
             command == make_command(name, text)
         IN  /\ db' = _set_command(ctx.guild, name, text)
             /\ IF add_command_raises(removed, command)
                THEN /\ all_commands' = removed
                     /\ sent' = <<>>
                     /\ last' = Operation("add", ctx, name, text, "raised")
                ELSE /\ all_commands' = add_command(removed, command)
                     /\ sent' = <<message_guild(added_command(name), ctx.channel)>>
                     /\ last' = Operation("add", ctx, name, text, "done")

\* remove without `self.bot.remove_command(name)`: the command stays
\* registered.
remove_without_remove_command(ctx, name) ==
    IF ~has_permission(ctx.author)
    THEN /\ sent' = <<message_guild(denied_remove(ctx.author), ctx.channel)>>
         /\ last' = Operation("remove", ctx, name, None, "denied")
         /\ UNCHANGED <<db, all_commands>>
    ELSE /\ UNCHANGED all_commands
         /\ db' = _remove_command(ctx.guild, name)
         /\ sent' = <<message_guild(removed_command(name), ctx.channel)>>
         /\ last' = Operation("remove", ctx, name, None, "done")

\* remove that deregisters the command only when the acting guild defines it.
remove_if_defined(ctx, name) ==
    IF ~has_permission(ctx.author)
    THEN /\ sent' = <<message_guild(denied_remove(ctx.author), ctx.channel)>>
         /\ last' = Operation("remove", ctx, name, None, "denied")
         /\ UNCHANGED <<db, all_commands>>
    ELSE /\ all_commands' = IF name \in DOMAIN db[ctx.guild]
                            THEN remove_command(all_commands, name)
                            ELSE all_commands
         /\ db' = _remove_command(ctx.guild, name)
         /\ sent' = <<message_guild(removed_command(name), ctx.channel)>>
         /\ last' = Operation("remove", ctx, name, None, "done")

\* remove without the `return` of the denial branch.
remove_without_return(ctx, name) ==
    LET denial == IF has_permission(ctx.author) THEN <<>>
                  ELSE <<message_guild(denied_remove(ctx.author), ctx.channel)>>
    IN  /\ all_commands' = remove_command(all_commands, name)
        /\ db' = _remove_command(ctx.guild, name)
        /\ sent' = denial \o <<message_guild(removed_command(name), ctx.channel)>>
        /\ last' = Operation("remove", ctx, name, None,
                             IF has_permission(ctx.author) THEN "done" ELSE "denied")

remove(ctx, name) ==
    IF ~has_permission(ctx.author)
    THEN /\ sent' = <<message_guild(denied_remove(ctx.author), ctx.channel)>>
         /\ last' = Operation("remove", ctx, name, None, "denied")
         /\ UNCHANGED <<db, all_commands>>
    ELSE /\ all_commands' = remove_command(all_commands, name)
         /\ db' = _remove_command(ctx.guild, name)
         /\ sent' = <<message_guild(removed_command(name), ctx.channel)>>
         /\ last' = Operation("remove", ctx, name, None, "done")

\* The callback with the lookup keyed by the wrong argument: every lookup
\* misses.
_command_lookup_misses(ctx, name) ==
    <<message_guild(not_available, ctx.channel)>>

\* The callback with a lookup that falls back on the other guilds' tables.
_command_any_guild(ctx, name) ==
    LET holders == {g \in Guilds : name \in DOMAIN db[g]}
        _text == IF name \in DOMAIN db[ctx.guild] THEN db[ctx.guild][name]
                 ELSE IF holders = {} THEN None
                 ELSE db[CHOOSE g \in holders : TRUE][name]
    IN  IF _text = None
        THEN <<message_guild(not_available, ctx.channel)>>
        ELSE <<message_guild(stored_text(_text), ctx.channel)>>

\* The callback of a custom command: what it sends.
_command(ctx, name) ==
    LET _text == _get_command(ctx.guild, name)
    IN  IF _text = None
        THEN <<message_guild(not_available, ctx.channel)>>
        ELSE <<message_guild(stored_text(_text), ctx.channel)>>

\* `?commands add name text`: the dispatcher finds the group and runs _add.
_add(ctx, name, text) ==
    /\ phase = "ready"
    /\ GroupName \in DOMAIN all_commands
    /\ all_commands[GroupName].callback = "_commands"
    /\ add(ctx, name, text)
    /\ UNCHANGED <<guild_admin_permission, bot_admin_permission,
                   everyone_permission, phase, todo, cur, tasks, running>>

\* `?commands remove name`
_remove(ctx, name) ==
    /\ phase = "ready"
    /\ GroupName \in DOMAIN all_commands
    /\ all_commands[GroupName].callback = "_commands"
    /\ remove(ctx, name)
    /\ UNCHANGED <<guild_admin_permission, bot_admin_permission,
                   everyone_permission, phase, todo, cur, tasks, running>>

\* `?name`: the dispatcher looks the name up in the command table.  It finds
\* a custom command, the group (whose callback, _commands, does nothing), or
\* no command at all, and then reports an unknown command (CommandNotFound).
found(name) ==
    IF name \notin DOMAIN all_commands THEN "CommandNotFound"
    ELSE IF all_commands[name].callback = "_commands" THEN "group"
    ELSE "_command"

\* What the invocation of `?name` sends.
reply(ctx, name) ==
    IF found(name) = "_command" THEN _command(ctx, all_commands[name].name)
    ELSE <<>>

invoke(ctx, name) ==
    /\ phase = "ready"
    /\ sent' = reply(ctx, name)
    /\ last' = Operation("invoke", ctx, name, None, found(name))
    /\ UNCHANGED <<db, all_commands, guild_admin_permission, bot_admin_permission,
                   everyone_permission, phase, todo, cur, tasks, running>>

Next ==
    \/ \E guild \in Guilds, name \in Names : init_register(guild, name)
    \/ init_return
    \/ add_cog
    \/ \E ctx \in Contexts, name \in Names, text \in Texts : _add(ctx, name, text)
    \/ \E ctx \in Contexts, name \in Names : _remove(ctx, name)
    \/ \E ctx \in InvokeContexts, name \in Names : invoke(ctx, name)

Spec == Init /\ [][Next]_vars

\* The bot started again and again over the same stored tables, each time
\* with a configuration of its own.
NextFlags ==
    \/ \E guild \in Guilds, name \in Names : init_register(guild, name)
    \/ init_return
    \/ add_cog
    \/ \E _guild_admin_permission \in BOOLEAN, _bot_admin_permission \in BOOLEAN,
          _everyone_permission \in BOOLEAN :
          __init__(_guild_admin_permission, _bot_admin_permission, _everyone_permission)

SpecFlags == InitFlags /\ [][NextFlags]_vars

----------------------------------------------------------------------------
\* add, remove and _command as coroutines: a task runs from statement to
\* statement and gives the event loop back only in an `await` of
\* bot.message_guild; the loop then starts or resumes whichever task it likes.

\* The contexts and names the tasks are started with.
TaskContexts == {ctx \in Contexts : ctx.channel = 1 /\ ~ctx.author.bot_admin}
TaskNames == CustomNames

\* The bot ready after a start with the flags at the defaults of the
\* signature, over stored tables that use the custom names.
InitTasks ==
    /\ db \in [Guilds -> UNION {[S -> Texts] : S \in SUBSET TaskNames}]
    /\ all_commands = EmptyDict
    /\ guild_admin_permission = TRUE
    /\ bot_admin_permission = TRUE
    /\ everyone_permission = FALSE
    /\ phase = "init"
    /\ todo = db_items(db)
    /\ cur = 1
    /\ last = NoOp
    /\ sent = <<>>
    /\ tasks = EmptyDict
    /\ running = NoTask

\* The store write of add awaited as well.
awaits_store_write(pc) == pc \in {66, 73, 79, 93, 104, 112, 116}

\* The statement at line pc is an `await`.
awaits(pc) == pc \in {66, 79, 93, 104, 112, 116}

\* The running task is at line pc of op.
at(t, op, pc) == running = t /\ tasks[t].op = op /\ tasks[t].pc = pc

\* The statement at line pc has run and line next follows: an `await` gives
\* the event loop back, any other statement lets the task run on.
proceed(t, pc, next) ==
    IF awaits(pc)
    THEN /\ running' = NoTask
         /\ tasks' = [tasks EXCEPT ![t] = IF next = Return THEN Returning(@.op)
                                          ELSE [@ EXCEPT !.pc = next]]
    ELSE /\ tasks' = [tasks EXCEPT ![t].pc = next]
         /\ UNCHANGED running

\* The dispatcher starts a task for a message when the loop is free.
free(t) ==
    /\ phase = "ready"
    /\ running = NoTask
    /\ t \notin DOMAIN tasks

\* What no task touches: the configuration, the startup and the record of
\* the dispatcher's last call.
static == <<guild_admin_permission, bot_admin_permission, everyone_permission,
            phase, todo, cur, last>>

\* `?commands add name text`: _add calls add, which tests the permission.
add_65(t, ctx, name, text) ==
    /\ free(t)
    /\ found(GroupName) = "group"
    /\ running' = t
    /\ tasks' = create_task(t,
           Frame("add", ctx, name, text, IF has_permission(ctx.author) THEN 73 ELSE 66))
    /\ UNCHANGED <<db, all_commands, sent, static>>

add_66(t) ==
    /\ at(t, "add", 66)
    /\ sent' = <<message_guild(denied_add(tasks[t].ctx.author), tasks[t].ctx.channel)>>
    /\ proceed(t, 66, Return)
    /\ UNCHANGED <<db, all_commands, static>>

add_73(t) ==
    /\ at(t, "add", 73)
    /\ db' = _set_command(tasks[t].ctx.guild, tasks[t].name, tasks[t].text)
    /\ proceed(t, 73, 75)
    /\ UNCHANGED <<all_commands, sent, static>>

add_75(t) ==
    /\ at(t, "add", 75)
    /\ all_commands' = remove_command(all_commands, tasks[t].name)
    /\ proceed(t, 75, 77)
    /\ UNCHANGED <<db, sent, static>>

\* add_command raises when another task has registered the name meanwhile:
\* the task ends with the exception.
add_77(t) ==
    /\ at(t, "add", 77)
    /\ LET command == make_command(tasks[t].name, tasks[t].text)
       IN  IF add_command_raises(all_commands, command)
           THEN /\ tasks' = ended(t)
                /\ running' = NoTask
                /\ UNCHANGED all_commands
           ELSE /\ all_commands' = add_command(all_commands, command)
                /\ proceed(t, 77, 79)
    /\ UNCHANGED <<db, sent, static>>

add_79(t) ==
    /\ at(t, "add", 79)
    /\ sent' = <<message_guild(added_command(tasks[t].name), tasks[t].ctx.channel)>>
    /\ proceed(t, 79, Return)
    /\ UNCHANGED <<db, all_commands, static>>

\* `?commands remove name`: _remove calls remove, which tests the permission.
remove_92(t, ctx, name) ==
    /\ free(t)
    /\ found(GroupName) = "group"
    /\ running' = t
    /\ tasks' = create_task(t,
           Frame("remove", ctx, name, None, IF has_permission(ctx.author) THEN 100 ELSE 93))
    /\ UNCHANGED <<db, all_commands, sent, static>>

remove_93(t) ==
    /\ at(t, "remove", 93)
    /\ sent' = <<message_guild(denied_remove(tasks[t].ctx.author), tasks[t].ctx.channel)>>
    /\ proceed(t, 93, Return)
    /\ UNCHANGED <<db, all_commands, static>>

remove_100(t) ==
    /\ at(t, "remove", 100)
    /\ all_commands' = remove_command(all_commands, tasks[t].name)
    /\ proceed(t, 100, 102)
    /\ UNCHANGED <<db, sent, static>>

remove_102(t) ==
    /\ at(t, "remove", 102)
    /\ db' = _remove_command(tasks[t].ctx.guild, tasks[t].name)
    /\ proceed(t, 102, 104)
    /\ UNCHANGED <<all_commands, sent, static>>

remove_104(t) ==
    /\ at(t, "remove", 104)
    /\ sent' = <<message_guild(removed_command(tasks[t].name), tasks[t].ctx.channel)>>
    /\ proceed(t, 104, Return)
    /\ UNCHANGED <<db, all_commands, static>>

\* `?name`: the dispatcher finds the custom command and starts its callback,
\* which looks the text up and tests it.
_command_110(t, ctx, name) ==
    /\ free(t)
    /\ found(name) = "_command"
    /\ running' = t
    /\ LET _text == _get_command(ctx.guild, all_commands[name].name)
       IN  tasks' = create_task(t,
               Frame("_command", ctx, name, _text, IF _text = None THEN 112 ELSE 116))
    /\ UNCHANGED <<db, all_commands, sent, static>>

_command_112(t) ==
    /\ at(t, "_command", 112)
    /\ sent' = <<message_guild(not_available, tasks[t].ctx.channel)>>
    /\ proceed(t, 112, Return)
    /\ UNCHANGED <<db, all_commands, static>>

_command_116(t) ==
    /\ at(t, "_command", 116)
    /\ sent' = <<message_guild(stored_text(tasks[t].text), tasks[t].ctx.channel)>>
    /\ proceed(t, 116, Return)
    /\ UNCHANGED <<db, all_commands, static>>

\* The event loop resumes a suspended task: the await returns, and the task
\* runs on, or returns when nothing is left.
resume(t) ==
    /\ running = NoTask
    /\ t \in DOMAIN tasks
    /\ IF tasks[t].pc = Return
       THEN /\ tasks' = ended(t)
            /\ UNCHANGED running
       ELSE /\ running' = t
            /\ UNCHANGED tasks
    /\ UNCHANGED <<db, all_commands, sent, static>>

NextTasks ==
    \/ \E guild \in Guilds, name \in Names : init_register(guild, name)
    \/ init_return
    \/ add_cog
    \/ \E t \in Tasks, ctx \in TaskContexts, name \in TaskNames, text \in Texts :
          add_65(t, ctx, name, text)
    \/ \E t \in Tasks : add_66(t)
    \/ \E t \in Tasks : add_73(t)
    \/ \E t \in Tasks : add_75(t)
    \/ \E t \in Tasks : add_77(t)
    \/ \E t \in Tasks : add_79(t)
    \/ \E t \in Tasks, ctx \in TaskContexts, name \in TaskNames : remove_92(t, ctx, name)
    \/ \E t \in Tasks : remove_93(t)
    \/ \E t \in Tasks : remove_100(t)
    \/ \E t \in Tasks : remove_102(t)
    \/ \E t \in Tasks : remove_104(t)
    \/ \E t \in Tasks, ctx \in TaskContexts, name \in TaskNames : _command_110(t, ctx, name)
    \/ \E t \in Tasks : _command_112(t)
    \/ \E t \in Tasks : _command_116(t)
    \/ \E t \in Tasks : resume(t)

SpecTasks == InitTasks /\ [][NextTasks]_vars

----------------------------------------------------------------------------
\* Vocabulary of the properties

TypeOK ==
    /\ db \in [Guilds -> Tables]
    /\ all_commands \in UNION {[S -> {make_command(n, None) : n \in Names} \cup {group_command}] :
                                 S \in SUBSET Names}
    /\ guild_admin_permission \in BOOLEAN
    /\ bot_admin_permission \in BOOLEAN
    /\ everyone_permission \in BOOLEAN
    /\ phase \in {"init", "constructed", "ready", "failed"}
    /\ todo \subseteq Guilds \X Names
    /\ cur \in Guilds

\* The operation o is a permitted add (or remove) that ran to its end.
Done(o, op) == o.op = op /\ o.outcome = "done"

\* The one message that carries a stored text, and the fixed notice.
Text(text, channel) == <<message_guild(stored_text(text), channel)>>
NotAvailable(channel) == <<message_guild(not_available, channel)>>

\* The actor has admin rights or the everyone_permission override is set.
permitted(member) ==
    everyone_permission \/ member.guild_admin \/ member.bot_admin

\* Some guild's table defines the name.
defined(name) == \E g \in Guilds : name \in DOMAIN db[g]

\* A name some guild's table defines while no handler is installed for it.
uncovered(name) == defined(name) /\ name \notin DOMAIN all_commands

----------------------------------------------------------------------------
\* C1: a permitted add(actor, guild, name, text) followed by
\* invoke(guild, name) sends exactly the stored text `text`, to the channel of
\* the invocation, whatever operations came before the add.
C1_AddThenInvoke ==
    [][(/\ Done(last, "add")
        /\ last'.op = "invoke"
        /\ last'.ctx.guild = last.ctx.guild
        /\ last'.name = last.name)
       => sent' = Text(last.text, last'.ctx.channel)]_vars

\* A permitted add has defined a name the guild did not have, while another
\* guild defines it too, and the invocation of the name in the adding guild
\* answers with the added text.
C1_Witness ==
    /\ phase = "ready"
    /\ Done(last, "add")
    /\ last.old = None
    /\ \E g \in Guilds \ {last.ctx.guild} : last.name \in DOMAIN db[g]
    /\ found(last.name) = "_command"
    /\ reply(last.ctx, last.name) = Text(last.text, last.ctx.channel)

\* C2: an add or remove by an actor with neither admin rights nor the
\* everyone_permission override changes neither the store nor the command
\* table, and sends the denial notice.
C2_DeniedChangesNothing ==
    [][(/\ last'.op \in {"add", "remove"}
        /\ ~permitted(last'.ctx.author))
       => /\ db' = db
          /\ all_commands' = all_commands
          /\ sent' = <<message_guild(
                         IF last'.op = "add" THEN denied_add(last'.ctx.author)
                         ELSE denied_remove(last'.ctx.author),
                         last'.ctx.channel)>>]_vars

\* A remove was denied in a state with stored commands.
C2_Witness ==
    /\ last.op = "remove"
    /\ last.outcome = "denied"
    /\ ~permitted(last.ctx.author)
    /\ defined(last.name)
    /\ sent = <<message_guild(denied_remove(last.ctx.author), last.ctx.channel)>>

\* C3: after add(guild_A, x, t1) and then add(guild_B, x, t2) with guild_A
\* different from guild_B, invoke(guild_A, x) returns t1 and invoke(guild_B, x)
\* returns t2.
C3_PerGuildContent ==
    [][\A a \in {last.ctx}, x \in {last.name}, t1 \in {last.text} :
          (/\ Done(last, "add")
           /\ Done(last', "add")
           /\ last'.name = x
           /\ last'.ctx.guild # a.guild)
          => /\ reply(a, x)' = Text(t1, a.channel)
             /\ reply(last.ctx, last.name)' = Text(last.text, last.ctx.channel)']_vars

\* guild_B has added x with a text other than the one guild_A holds for x.
C3_Witness ==
    /\ phase = "ready"
    /\ Done(last, "add")
    /\ \E A \in Guilds \ {last.ctx.guild} :
          /\ last.name \in DOMAIN db[A]
          /\ db[A][last.name] # last.text
          /\ reply([last.ctx EXCEPT !.guild = A], last.name)
                = Text(db[A][last.name], last.ctx.channel)
    /\ reply(last.ctx, last.name) = Text(last.text, last.ctx.channel)

\* C4, as stated: after add(guild_A, x, t1), add(guild_B, x, t2) and
\* remove(guild_A, x), invoke(guild_B, x) yields CommandNotAvailable, the fixed
\* "not available in this guild" notice.
C4_Original ==
    [][(/\ Done(last, "remove")
        /\ last.old # None
        /\ last'.op = "invoke"
        /\ last'.name = last.name
        /\ last'.ctx.guild # last.ctx.guild
        /\ last.name \in DOMAIN db[last'.ctx.guild])
       => sent' = NotAvailable(last'.ctx.channel)]_vars

\* C4, amended: after these operations no handler is installed for x, so
\* invoke(guild_B, x) is an unknown command to the dispatcher: nothing is sent,
\* neither guild_B's text nor the notice, and guild_B's text stays stored.
C4_GlobalDeregistration ==
    [][(/\ Done(last, "remove")
        /\ last.old # None
        /\ last'.op = "invoke"
        /\ last'.name = last.name
        /\ last'.ctx.guild # last.ctx.guild
        /\ last.name \in DOMAIN db[last'.ctx.guild])
       => /\ sent' = <<>>
          /\ last'.outcome = "CommandNotFound"
          /\ last'.old = db[last'.ctx.guild][last.name]
          /\ db' = db]_vars

\* guild_A has removed x, which it had defined, while another guild still
\* holds a text for x, and no handler is left for x.
C4_Witness ==
    /\ Done(last, "remove")
    /\ last.old # None
    /\ \E B \in Guilds \ {last.ctx.guild} : last.name \in DOMAIN db[B]
    /\ found(last.name) = "CommandNotFound"

\* C5, as stated: in every state after startup, the names with an installed
\* handler are a superset of the names defined in any guild's table.
C5_Original ==
    phase = "ready" => \A n \in Names : ~uncovered(n)

\* C5, amended: a completed startup installs a handler for every name defined
\* in any guild's table, and afterwards a defined name is without a handler
\* only from a permitted remove of that name on: no other operation takes the
\* handler of a defined name away or defines a name without installing one.
C5_HandlersCoverNames ==
    [][phase' = "ready" =>
          \A n \in Names :
              uncovered(n)' =>
                  /\ phase = "ready"
                  /\ uncovered(n) \/ (Done(last', "remove") /\ last'.name = n)]_vars

\* A permitted remove has left a name defined by another guild without a
\* handler.
C5_Witness ==
    /\ phase = "ready"
    /\ Done(last, "remove")
    /\ uncovered(last.name)

\* C6: for a persisted store holding N distinct command names across any
\* number of guilds, initialization completes with exactly N handlers
\* installed, also when the same name is stored under several guilds.
C6_StartupRegistersEachName ==
    (phase # "init" /\ last = NoOp) =>
        /\ todo = {}
        /\ Cardinality({n \in DOMAIN all_commands :
                           all_commands[n].callback = "_command"})
              = Cardinality({n \in Names : defined(n)})

\* C7: a permitted add of an existing (guild, name) with a different text
\* runs to its end, overwrites the text (an invocation returns the newest
\* text) and leaves one handler registered for the name, the command of that
\* name.
C7_ReAddOverwrites ==
    (/\ last.op = "add"
     /\ permitted(last.ctx.author)
     /\ last.old \notin {None, last.text})
    => /\ last.outcome = "done"
       /\ db[last.ctx.guild][last.name] = last.text
       /\ last.name \in DOMAIN all_commands
       /\ all_commands[last.name] = make_command(last.name, last.text)
       /\ reply(last.ctx, last.name) = Text(last.text, last.ctx.channel)

\* An add has replaced an older, different text of the same guild and name.
C7_Witness ==
    /\ Done(last, "add")
    /\ last.old \notin {None, last.text}
    /\ db[last.ctx.guild][last.name] = last.text
    /\ found(last.name) = "_command"

\* C8, as stated: a permitted remove(guild, name) followed by
\* invoke(guild, name) yields CommandNotAvailable, the fixed "not available in
\* this guild" notice.
C8_Original ==
    [][(/\ Done(last, "remove")
        /\ last'.op = "invoke"
        /\ last'.ctx.guild = last.ctx.guild
        /\ last'.name = last.name)
       => sent' = NotAvailable(last'.ctx.channel)]_vars

\* C8, amended: after a permitted remove(guild, name) no handler is installed
\* for the name, so invoke(guild, name) is an unknown command to the
\* dispatcher: the guild has no text for the name and nothing is sent, not
\* the notice either.
C8_RemoveThenInvoke ==
    [][(/\ Done(last, "remove")
        /\ last'.op = "invoke"
        /\ last'.ctx.guild = last.ctx.guild
        /\ last'.name = last.name)
       => /\ sent' = <<>>
          /\ last'.outcome = "CommandNotFound"
          /\ last'.old = None]_vars

\* A guild has removed a name it had defined: the text is gone, and so is
\* the handler.
C8_Witness ==
    /\ phase = "ready"
    /\ Done(last, "remove")
    /\ last.old # None
    /\ last.name \notin DOMAIN db[last.ctx.guild]
    /\ found(last.name) = "CommandNotFound"
    /\ reply(last.ctx, last.name) = <<>>

\* C9: has_permission(actor) is true when everyone_permission is set,
\* otherwise exactly when the actor is a guild admin or a bot administrator;
\* add and remove take the denial branch exactly when it is false.
C9_HasPermission ==
    /\ \A m \in Members :
          has_permission(m) =
              IF everyone_permission THEN TRUE
              ELSE m.guild_admin \/ m.bot_admin
    /\ last.op \in {"add", "remove"} =>
          ((last.outcome = "denied") <=> ~permitted(last.ctx.author))

\* Without the override, an add went through for an actor who is a bot
\* administrator and no guild admin.
C9_Witness ==
    /\ ~everyone_permission
    /\ Done(last, "add")
    /\ last.ctx.author.bot_admin
    /\ ~last.ctx.author.guild_admin

\* C10: an add or remove that runs to completion sends exactly one notice,
\* to the originating channel: the denial notice when permission is refused,
\* the success notice otherwise.
C10_OneNotice ==
    (last.op \in {"add", "remove"} /\ last.outcome \in {"done", "denied"}) =>
        sent = <<message_guild(
                    IF permitted(last.ctx.author)
                    THEN IF last.op = "add" THEN added_command(last.name)
                         ELSE removed_command(last.name)
                    ELSE IF last.op = "add" THEN denied_add(last.ctx.author)
                         ELSE denied_remove(last.ctx.author),
                    last.ctx.channel)>>

\* A remove of a name the guild never defined went through and sent its one
\* success notice.
C10_Witness ==
    /\ Done(last, "remove")
    /\ last.old = None
    /\ sent = <<message_guild(removed_command(last.name), last.ctx.channel)>>

\* C11: per command name the handler goes Unregistered -> Registered ->
\* Unregistered -> Registered: a permitted add of the name, in any guild,
\* leaves its handler installed, a permitted remove of the name, in any guild
\* and whichever guild added it, leaves none, and no other operation changes
\* whether the name has a handler; so a handler is installed exactly when the
\* most recent permitted add or remove of the name was an add.
C11_HandlerFollowsLastOperation ==
    [][/\ Done(last', "add") => \A n \in {last'.name} : found(n)' = "_command"
       /\ Done(last', "remove") => \A n \in {last'.name} : found(n)' = "CommandNotFound"
       /\ phase = "ready"
             => \A n \in Names :
                   \/ last'.name = n /\ (Done(last', "add") \/ Done(last', "remove"))
                   \/ (n \in DOMAIN all_commands') <=> (n \in DOMAIN all_commands)]_vars

\* A guild that never defined the name has removed it: the handler another
\* guild's add had installed, and whose text is still stored, is gone.
C11_Witness ==
    /\ phase = "ready"
    /\ Done(last, "remove")
    /\ last.old = None
    /\ last.had
    /\ defined(last.name)
    /\ found(last.name) = "CommandNotFound"

\* C12: add and remove deregister only handlers the registry installed for
\* custom commands: the `commands` group stays installed after any sequence
\* of add and remove calls with any name, the group's own name included.
C12_GroupStaysInstalled ==
    phase = "ready" => found(GroupName) = "group"

\* C13: the stored content of a (guild, name) pair changes only under a
\* permitted add or remove of that guild for that name: every entry of every
\* other guild, and every entry of the same guild under another name, is left
\* as it was.
C13_StoreFrame ==
    [][db' # db
       => /\ Done(last', "add") \/ Done(last', "remove")
          /\ \A g \in Guilds \ {last'.ctx.guild} : db'[g] = db[g]
          /\ \A n \in Names \ {last'.name} :
                db_value(db', last'.ctx.guild, n) = db_value(db, last'.ctx.guild, n)]_vars

\* A guild has added a name while it holds an entry under another name and
\* another guild holds entries too.
C13_Witness ==
    /\ Done(last, "add")
    /\ last.old # last.text
    /\ DOMAIN db[last.ctx.guild] # {last.name}
    /\ \E g \in Guilds \ {last.ctx.guild} : DOMAIN db[g] # {}

\* C14: when a handler for the name is installed and the invoking guild has
\* no stored entry for it, invoke sends the fixed "not available in this
\* guild" notice, no stored text, and changes neither the store nor the
\* command table.
C14_NotAvailable ==
    [][(/\ last'.op = "invoke"
        /\ found(last'.name) = "_command"
        /\ last'.name \notin DOMAIN db[last'.ctx.guild])
       => /\ sent' = NotAvailable(last'.ctx.channel)
          /\ db' = db
          /\ all_commands' = all_commands]_vars

\* A name another guild defines was invoked in a guild without an entry for
\* it, and the notice was sent.
C14_Witness ==
    /\ last.op = "invoke"
    /\ last.outcome = "_command"
    /\ last.old = None
    /\ defined(last.name)
    /\ sent = NotAvailable(last.ctx.channel)

\* C15: an entry orphaned by another guild's remove becomes reachable again
\* on re-add: a permitted remove(guild_A, x) leaves guild_B's text for x in
\* the store, with no handler for x, and a later permitted add of x by
\* another guild than guild_B makes invoke(guild_B, x) return that text again.
C15_OrphanReachableAgain ==
    [][/\ Done(last', "remove")
          => \A B \in Guilds \ {last'.ctx.guild}, x \in {last'.name} :
                db_value(db, B, x) # None
                => /\ db_value(db', B, x) = db_value(db, B, x)
                   /\ found(x)' = "CommandNotFound"
       /\ (Done(last', "add") /\ last'.name \notin DOMAIN all_commands)
          => \A B \in Guilds \ {last'.ctx.guild}, x \in {last'.name} :
                \A t2 \in {db_value(db, B, x)} :
                    t2 # None
                    => \A c \in InvokeContexts :
                          c.guild = B => reply(c, x)' = Text(t2, c.channel)]_vars

\* A guild has added a name that had no handler while another guild held a
\* text for it, and that guild's invocation answers with its text again.
C15_Witness ==
    /\ phase = "ready"
    /\ Done(last, "add")
    /\ ~last.had
    /\ \E c \in InvokeContexts :
          /\ c.guild # last.ctx.guild
          /\ last.name \in DOMAIN db[c.guild]
          /\ db[c.guild][last.name] # last.text
          /\ reply(c, last.name) = Text(db[c.guild][last.name], c.channel)

C16_NoSuspensionBetween ==
    \A t \in DOMAIN tasks :
        /\ running # t
              => /\ ~(tasks[t].op = "add" /\ tasks[t].pc \in {75, 77})
                 /\ ~(tasks[t].op = "remove" /\ tasks[t].pc = 102)
        /\ at(t, "add", 79)
              => /\ db_value(db, tasks[t].ctx.guild, tasks[t].name) = tasks[t].text
                 /\ found(tasks[t].name) = "_command"
        /\ at(t, "remove", 104)
              => /\ db_value(db, tasks[t].ctx.guild, tasks[t].name) = None
                 /\ found(tasks[t].name) = "CommandNotFound"

\* An add has written the store and deregistered the old handler, not yet
\* registered its own, while a remove is suspended in its notice.
C16_Witness ==
    \E t \in Tasks, u \in Tasks :
        /\ at(t, "add", 77)
        /\ tasks[t].name \notin DOMAIN all_commands
        /\ db_value(db, tasks[t].ctx.guild, tasks[t].name) = tasks[t].text
        /\ running # u
        /\ u \in DOMAIN tasks
        /\ tasks[u] = Returning("remove")

====
